---- MODULE Spec2Model ----
(***************************************************************************)
(* Telegram Script Runner: the long-poll loop of TgBot (telegram_client.py) *)
(* and the callbacks of TgCoordinator (coordinator.py).                     *)
(*                                                                         *)
(* Python strings are sequences of one-character strings, so that strip,   *)
(* split and startswith are computed the way the code computes them.       *)
(* The asyncio task is modelled between its suspension points: one action   *)
(* runs the coroutine from one await that suspends to the next.             *)
(***************************************************************************)
EXTENDS Naturals, Sequences, FiniteSets

VARIABLES
    allowed_users,  \* TgBot._allowed_users: a set of user ids
    command_map,    \* TgBot._command_map: the snapshot taken by async_start
    entry_map,      \* the command map stored in the config entry (data + options)
    stream,         \* the backend's updates, by update_id
    pc,             \* where the task running TgBot.run is suspended
    stopping,       \* TgBot._stopping (the asyncio.Event)
    cancelling,     \* Task.cancel() was requested and not yet delivered
    task,           \* TgCoordinator._task: "set" or "none"
    session,        \* TgBot._session: "none", "open" or "closed"
    offset,         \* TgBot._offset: <<>> for None, <<n>> for n
    queue,          \* the updates of the batch the for loop has not reached
    req,            \* the offset parameter of the latest getUpdates request
    batch,          \* the update_ids _get_updates returned last
    fetched,        \* the update_ids of every TgUpdate a fetch has returned
    skipped,        \* the update_ids of the items without a message that the
                    \* latest _get_updates passed over
    caught,         \* where the exception "except Exception" caught in the
                    \* latest iteration came from: "none", "fetch", "dispatch"
    dispatched,     \* the update_ids handed to _handle_update, in order
    cur             \* the latest _handle_update call: message, calls made, state

vars == <<allowed_users, command_map, entry_map, stream, pc, stopping,
          cancelling, task, session, offset, queue, req, batch, fetched,
          skipped, caught, dispatched, cur>>

\* Bounds of the model.
MaxId == 2

----------------------------------------------------------------------------
\* Python str operations on sequences of characters.

IsSpace(c) == c = " "

RECURSIVE LStrip(_)
LStrip(s) == IF s # <<>> /\ IsSpace(Head(s)) THEN LStrip(Tail(s)) ELSE s

RECURSIVE RStrip(_)
RStrip(s) ==
    IF s # <<>> /\ IsSpace(s[Len(s)]) THEN RStrip(SubSeq(s, 1, Len(s) - 1)) ELSE s

\* str.strip()
Strip(s) == RStrip(LStrip(s))

\* str.startswith(p)
StartsWith(s, p) == Len(s) >= Len(p) /\ SubSeq(s, 1, Len(p)) = p

\* The length of the leading run of non-whitespace characters.
RECURSIVE TokenLen(_)
TokenLen(s) == IF s = <<>> \/ IsSpace(Head(s)) THEN 0 ELSE 1 + TokenLen(Tail(s))

\* str.split(): the whitespace-delimited tokens ([] for a blank string).
RECURSIVE Split(_)
Split(s) ==
    LET t == LStrip(s)
        n == TokenLen(t)
    IN  IF t = <<>> THEN <<>>
        ELSE <<SubSeq(t, 1, n)>> \o Split(SubSeq(t, n + 1, Len(t)))

\* str.split(maxsplit=1): the first token, then the rest with its leading
\* whitespace dropped (kept as it is otherwise), when there is a rest.
SplitMax1(s) ==
    LET t == LStrip(s)
        n == TokenLen(t)
        rest == LStrip(SubSeq(t, n + 1, Len(t)))
    IN  IF t = <<>> THEN <<>>
        ELSE IF rest = <<>> THEN <<SubSeq(t, 1, n)>>
        ELSE <<SubSeq(t, 1, n), rest>>

\* "." in s
HasDot(s) == \E i \in 1..Len(s) : s[i] = "."

\* s.split(".", 1)[0]: what precedes the first "."
RECURSIVE BeforeDot(_)
BeforeDot(s) ==
    IF s = <<>> \/ Head(s) = "." THEN <<>> ELSE <<Head(s)>> \o BeforeDot(Tail(s))

----------------------------------------------------------------------------
\* The strings of the model.

sHelp == <<"/", "h", "e", "l", "p">>
sRun == <<"/", "r", "u", "n">>
sAutomation == <<"a", "u", "t", "o", "m", "a", "t", "i", "o", "n">>
kA == <<"/", "a">>

eScript == <<"s", "c", ".", "a">>
eAuto == sAutomation \o <<".", "x">>
eAutos == sAutomation \o <<"s", ".", "x">>
eFoo == <<"f", "o", "o">>

Texts ==
    { <<>>,                                       \* ""
      <<" ">>,                                    \* " "
      sHelp,                                      \* "/help"
      sHelp \o <<"x">>,                           \* "/helpx"
      sRun,                                       \* "/run"
      sRun \o <<" ">> \o eScript,                 \* "/run sc.a"
      sRun \o <<" ">> \o eAuto,                   \* "/run automation.x"
      sRun \o <<" ">> \o eAutos,                  \* "/run automations.x"
      sRun \o <<" ">> \o eFoo,                    \* "/run foo"
      <<" ">> \o sRun \o <<" ", " ">> \o eScript \o <<" ">>,  \* " /run  sc.a "
      sRun \o eScript,                            \* "/runsc.a"
      kA,                                         \* "/a"
      kA \o <<" ", "z">>,                         \* "/a z"
      <<"/", "x">> }                              \* "/x"

\* Command maps: a dict as the sequence of its items, in insertion order.
CmdMaps ==
    { <<>>,
      << <<kA, eScript>> >>,
      << <<kA, eAuto>>, <<sRun, eFoo>> >>,
      << <<sHelp, eScript>>, <<kA, eFoo>> >> }

\* k in m
HasKey(m, k) == \E i \in 1..Len(m) : m[i][1] = k

\* m[k]
Lookup(m, k) == m[CHOOSE i \in 1..Len(m) : m[i][1] = k][2]

Users == {<<>>, <<1>>, <<2>>}       \* TgUpdate.user_id: None, 1, 2
AllowLists == {{}, {1}}

\* One item of getUpdates' result: with or without a message.
Envelope(hasMsg, user, hasText, text) ==
    [msg |-> hasMsg, user_id |-> user, hasText |-> hasText, text |-> text]

NoMessage == Envelope(FALSE, <<>>, FALSE, <<>>)

Messages ==
    {Envelope(TRUE, u, TRUE, t) : u \in Users, t \in Texts}
        \cup {Envelope(TRUE, u, FALSE, <<>>) : u \in Users}

\* The envelopes of the polling specification's backend.
PollEnvelopes ==
    { NoMessage,
      Envelope(TRUE, <<1>>, FALSE, <<>>),
      Envelope(TRUE, <<1>>, TRUE, <<" ">>),
      Envelope(TRUE, <<1>>, TRUE, kA) }

----------------------------------------------------------------------------
\* The reply texts. A formatted text keeps what was formatted into it.

Denied == [kind |-> "denied"]              \* "Доступ заборонено"
Usage == [kind |-> "usage"]                \* "Використання: /run script.pc_off"
Unknown == [kind |-> "unknown"]            \* "Невідома команда. Напиши /help"
BadEntity == [kind |-> "bad_entity"]       \* "Невірний entity_id. ..."
Started(e) == [kind |-> "started", entity |-> e]
Failed(e, why) == [kind |-> "failed", entity |-> e, error |-> why]

\* TgCoordinator._handle_help: the lines of the help text for the command map
\* stored in the config entry at the time of the call.
HelpLines(m) ==
    <<[line |-> "title"], [line |-> "run"]>>
        \o (IF m # <<>>
            THEN <<[line |-> "blank"], [line |-> "quick"]>>
                 \o [i \in 1..Len(m) |->
                        [line |-> "map", command |-> m[i][1], target |-> m[i][2]]]
            ELSE <<>>)

_handle_help == [kind |-> "help", lines |-> HelpLines(entry_map)]

\* _is_allowed with "user_id is not None and" read as "user_id is None or".
IsAllowedNoneOk(user_id) ==
    IF allowed_users = {} THEN TRUE
    ELSE user_id = <<>> \/ user_id[1] \in allowed_users

\* _is_allowed without the test for an empty allow-list.
IsAllowedListed(user_id) == user_id # <<>> /\ user_id[1] \in allowed_users

\* TgBot._is_allowed
_is_allowed(user_id) ==
    IF allowed_users = {} THEN TRUE
    ELSE user_id # <<>> /\ user_id[1] \in allowed_users

\* turn_on for every domain: the automation branch left out.
ServiceForTurnOn(domain) == "turn_on"

\* The service TgCoordinator._handle_run_entity calls for a domain.
ServiceFor(domain) == IF domain = sAutomation THEN "trigger" ELSE "turn_on"

\* hass.services.async_call(domain, service, {"entity_id": entity_id})
ServiceCall(domain, entity_id) ==
    [domain |-> domain, service |-> ServiceFor(domain), entity_id |-> entity_id]

\* (Below, "CHOOSE r \in {F(x) : x \in {e}} : TRUE" is F(e) with e evaluated
\* once, as the assignment to a local variable is.)

\* What _handle_update has done when it first suspends, returns or raises.
\*   kind: "return", "raise", "send" (in _send) or "exec" (in the service
\*   call); branch: the path taken; sends: the reply texts given to _send;
\*   execs: the service calls made; helps: the calls of on_help; runs: the
\*   arguments of on_run_entity.
Outcome(kind, branch, sends, execs, helps, runs) ==
    [kind |-> kind, branch |-> branch, sends |-> sends, execs |-> execs,
     helps |-> helps, runs |-> runs]

\* _handle_run_entity without its check for ".".
RunEntityNoCheck(branch, arg, e) ==
    Outcome("exec", branch, <<>>, <<ServiceCall(BeforeDot(e), e)>>, 0, <<arg>>)

\* TgCoordinator._handle_run_entity for the stripped entity_id e, up to its
\* await: the error text for a target without ".", or the service call.
RunEntity(branch, arg, e) ==
    IF ~HasDot(e)
    THEN Outcome("send", branch, <<BadEntity>>, <<>>, 0, <<arg>>)
    ELSE Outcome("exec", branch, <<>>, <<ServiceCall(BeforeDot(e), e)>>, 0, <<arg>>)

\* on_run_entity(entity_id), called on the given branch of _handle_update.
_handle_run_entity(branch, entity_id) ==
    CHOOSE r \in {RunEntity(branch, entity_id, e) : e \in {Strip(entity_id)}} : TRUE

\* "/run <entity_id>" without the check of len(parts): the last part is
\* taken for the target.
GenericRunLast(parts) ==
    CHOOSE r \in {_handle_run_entity("GENERIC_RUN", e) :
                    e \in {Strip(parts[Len(parts)])}} : TRUE

\* "/run <entity_id>" for parts = text.split(maxsplit=1)
GenericRun(parts) ==
    IF Len(parts) # 2
    THEN Outcome("send", "USAGE_ERROR", <<Usage>>, <<>>, 0, <<>>)
    ELSE CHOOSE r \in {_handle_run_entity("GENERIC_RUN", e) : e \in {Strip(parts[2])}} :
            TRUE

\* The tests of _handle_update with "/run" tried before the command map.
CommandRunFirst(text, tokens) ==
    IF tokens = <<>> THEN Outcome("raise", "INDEX_ERROR", <<>>, <<>>, 0, <<>>)
    ELSE IF StartsWith(text, sRun)
        THEN CHOOSE r \in {GenericRun(parts) : parts \in {SplitMax1(text)}} : TRUE
    ELSE IF HasKey(command_map, tokens[1])
        THEN CHOOSE r \in {_handle_run_entity("FIXED_RUN", e) :
                            e \in {Lookup(command_map, tokens[1])}} : TRUE
    ELSE Outcome("send", "UNKNOWN", <<Unknown>>, <<>>, 0, <<>>)

\* _handle_update from "cmd = text.split()[0]" on, for tokens = text.split();
\* tokens[0] raises IndexError when text is blank.
Command(text, tokens) ==
    IF tokens = <<>> THEN Outcome("raise", "INDEX_ERROR", <<>>, <<>>, 0, <<>>)
    ELSE IF HasKey(command_map, tokens[1])
        THEN CHOOSE r \in {_handle_run_entity("FIXED_RUN", e) :
                            e \in {Lookup(command_map, tokens[1])}} : TRUE
    ELSE IF StartsWith(text, sRun)
        THEN CHOOSE r \in {GenericRun(parts) : parts \in {SplitMax1(text)}} : TRUE
    ELSE Outcome("send", "UNKNOWN", <<Unknown>>, <<>>, 0, <<>>)

\* _handle_update from "text = u.text.strip()" on.
Classify(text) ==
    IF StartsWith(text, sHelp)
    THEN Outcome("send", "HELP", <<_handle_help>>, <<>>, 1, <<>>)
    ELSE CHOOSE r \in {Command(text, tokens) : tokens \in {Split(text)}} : TRUE

\* TgBot._handle_update up to its first await that suspends (a _send or the
\* service call), or to its return or its exception when it has none.
_handle_update(u) ==
    IF ~u.hasText \/ u.text = <<>>
    THEN Outcome("return", "NO_TEXT", <<>>, <<>>, 0, <<>>)
    ELSE IF ~_is_allowed(u.user_id)
        THEN Outcome("send", "DENIED", <<Denied>>, <<>>, 0, <<>>)
    ELSE CHOOSE r \in {Classify(text) : text \in {Strip(u.text)}} : TRUE

----------------------------------------------------------------------------
\* TgBot.run

\* The elements of a set of numbers, in increasing order.
RECURSIVE Ascending(_)
Ascending(S) ==
    IF S = {} THEN <<>>
    ELSE LET m == CHOOSE x \in S : \A y \in S : x <= y
         IN  <<m>> \o Ascending(S \ {m})

\* The offset set to the update's own id.
NextOffsetSame(update_id) == <<update_id>>

\* self._offset = u.update_id + 1
NextOffset(update_id) == <<update_id + 1>>

\* An exception that ends run, as one the loop does not catch would.
OnExceptionExit == "done"

\* Where "except Exception" leaves the loop: at the sleep that ends the
\* iteration.
OnException == "sleep"

\* The state before any _handle_update call.
NoCall ==
    [id |-> 0, u |-> NoMessage, branch |-> "NONE", status |-> "none",
     sends |-> <<>>, execs |-> <<>>, helps |-> 0, runs |-> <<>>,
     error |-> "none"]

\* The call of _handle_update for update id with the outcome h.
Call(id, h) ==
    [id |-> id, u |-> stream[id], branch |-> h.branch,
     status |-> CASE h.kind = "return" -> "returned"
                  [] h.kind = "raise" -> "raised"
                  [] OTHER -> "running",
     sends |-> h.sends, execs |-> h.execs, helps |-> h.helps, runs |-> h.runs,
     error |-> "none"]

\* The task's state at a suspension point.
Point(p, q, k, o, d, c) ==
    [pc |-> p, queue |-> q, caught |-> k, offset |-> o, dispatched |-> d, cur |-> c]

\* The for loop over the updates q, run to the next await that suspends:
\* a _send or a service call of some update, or, when the loop ends or an
\* exception leaves it, the sleep. o is the offset, d the update_ids
\* dispatched so far and c the latest call.
RECURSIVE ForLoop(_, _, _, _)

\* One turn of the for loop with the offset set after _handle_update has
\* returned: a call that raises leaves the offset where the update before
\* left it.
ForStepOffsetAfter(q, d, h) ==
    IF h.kind = "return"
    THEN ForLoop(Tail(q), NextOffset(Head(q)), Append(d, Head(q)), Call(Head(q), h))
    ELSE IF h.kind = "raise"
        THEN Point(OnException, <<>>, "dispatch",
                   IF d = <<>> THEN <<>> ELSE NextOffset(d[Len(d)]),
                   Append(d, Head(q)), Call(Head(q), h))
    ELSE Point(h.kind, Tail(q), "none", NextOffset(Head(q)),
               Append(d, Head(q)), Call(Head(q), h))

\* One turn of the for loop: the offset is set, then _handle_update runs
\* (with the outcome h).
ForStep(q, d, h) ==
    IF h.kind = "return"
    THEN ForLoop(Tail(q), NextOffset(Head(q)), Append(d, Head(q)), Call(Head(q), h))
    ELSE IF h.kind = "raise"
        THEN Point(OnException, <<>>, "dispatch", NextOffset(Head(q)),
                   Append(d, Head(q)), Call(Head(q), h))
    ELSE Point(h.kind, Tail(q), "none", NextOffset(Head(q)),
               Append(d, Head(q)), Call(Head(q), h))

ForLoop(q, o, d, c) ==
    IF q = <<>> THEN Point("sleep", <<>>, "none", o, d, c)
    ELSE CHOOSE r \in {ForStep(q, d, h) : h \in {_handle_update(stream[Head(q)])}} :
            TRUE

\* The task is at the point r.
Goto(r) ==
    /\ pc' = r.pc
    /\ queue' = r.queue
    /\ offset' = r.offset
    /\ dispatched' = r.dispatched
    /\ cur' = r.cur
    /\ caught' = r.caught

\* The task goes on with the for loop over q from the call state c.
Continue(q, c) == \E r \in {ForLoop(q, offset, dispatched, c)} : Goto(r)

\* "while True": the loop does not look at the stop signal.
LoopHeadNoStop == pc' = "fetch" /\ session' = "open" /\ req' = offset

\* "while not self._stopping.is_set()": the next getUpdates request, with
\* the offset as it is now, or the finally clause that closes the session.
LoopHead ==
    IF stopping
    THEN pc' = "done" /\ session' = "closed" /\ req' = req
    ELSE pc' = "fetch" /\ session' = "open" /\ req' = offset

\* The task starts running TgBot.run: the session is created.
Start ==
    /\ pc = "created"
    /\ ~cancelling
    /\ LoopHead
    /\ UNCHANGED <<allowed_users, command_map, entry_map, stream, stopping,
                   cancelling, task, offset, queue, batch, fetched, skipped, caught,
                   dispatched, cur>>

\* The updates the backend holds for the latest request: those at or after
\* the offset asked for (all of them when no offset was sent).
Pending == {i \in DOMAIN stream : req = <<>> \/ i >= req[1]}

\* The updates the backend may answer a request with: getUpdates serves the
\* earliest pending updates first, so an answer is the pending updates up to
\* some update_id (none, when the long poll times out).
Answers == {{i \in Pending : i <= n} : n \in 0..MaxId}

\* The items of an answer taken for TgUpdates when none is passed over.
ParsedAll(ids) == ids

\* The items of an answer that _get_updates makes TgUpdates of: those with a
\* "message" or an "edited_message"; the others are passed over ("continue").
Parsed(ids) == {i \in ids : stream[i].msg}

\* _get_updates returns: the items that carry a message, as TgUpdates; the
\* for loop starts.
GetUpdatesOk ==
    /\ pc = "fetch"
    /\ ~cancelling
    /\ \E ids \in Answers :
        \E result \in {Ascending(Parsed(ids))} :
            /\ batch' = result
            /\ fetched' = fetched \cup Parsed(ids)
            /\ skipped' = ids \ Parsed(ids)
            /\ Continue(result, cur)
    /\ UNCHANGED <<allowed_users, command_map, entry_map, stream, stopping,
                   cancelling, task, session, req>>

\* _get_updates raises after the offset was moved past the request's.
GetUpdatesFailAdvance ==
    /\ pc = "fetch"
    /\ ~cancelling
    /\ pc' = OnException
    /\ caught' = "fetch"
    /\ offset' = (IF req = <<>> THEN NextOffset(0) ELSE NextOffset(req[1]))
    /\ UNCHANGED <<allowed_users, command_map, entry_map, stream, stopping,
                   cancelling, task, session, queue, req, batch, fetched, skipped,
                   dispatched, cur>>

\* _get_updates raises: the answer is not ok, or the request or the parsing
\* of an item fails.
GetUpdatesFail ==
    /\ pc = "fetch"
    /\ ~cancelling
    /\ pc' = OnException
    /\ caught' = "fetch"
    /\ UNCHANGED <<allowed_users, command_map, entry_map, stream, stopping,
                   cancelling, task, session, offset, queue, req, batch,
                   fetched, skipped, dispatched, cur>>

\* hass.services.async_call returns: the reply is the confirmation.
CallDone ==
    /\ pc = "exec"
    /\ ~cancelling
    /\ pc' = "send"
    /\ cur' = [cur EXCEPT !.sends = <<Started(cur.execs[1].entity_id)>>]
    /\ UNCHANGED <<allowed_users, command_map, entry_map, stream, stopping,
                   cancelling, task, session, offset, queue, req, batch,
                   fetched, skipped, caught, dispatched>>

\* The exceptions hass.services.async_call may raise, by their str().
Errors == {"not found", "timeout"}

\* hass.services.async_call raises and nothing catches it: the exception
\* leaves _handle_update and the for loop.
CallFailUncaught ==
    /\ pc = "exec"
    /\ ~cancelling
    /\ pc' = OnException
    /\ caught' = "dispatch"
    /\ queue' = <<>>
    /\ \E e \in Errors : cur' = [cur EXCEPT !.status = "raised", !.error = e]
    /\ UNCHANGED <<allowed_users, command_map, entry_map, stream, stopping,
                   cancelling, task, session, offset, req, batch, fetched, skipped,
                   dispatched>>

\* hass.services.async_call raises the exception e: "except Exception as e"
\* catches it and the reply is the error text.
CallFail ==
    /\ pc = "exec"
    /\ ~cancelling
    /\ pc' = "send"
    /\ \E e \in Errors :
        cur' = [cur EXCEPT !.error = e,
                           !.sends = <<Failed(cur.execs[1].entity_id, e)>>]
    /\ UNCHANGED <<allowed_users, command_map, entry_map, stream, stopping,
                   cancelling, task, session, offset, queue, req, batch,
                   fetched, skipped, caught, dispatched>>

\* _send returns (the answer is ok, or it is not and a warning is logged):
\* _handle_update returns and the for loop goes on.
SendDone ==
    /\ pc = "send"
    /\ ~cancelling
    /\ Continue(queue, [cur EXCEPT !.status = "returned"])
    /\ UNCHANGED <<allowed_users, command_map, entry_map, stream, stopping,
                   cancelling, task, session, req, batch, fetched, skipped>>

\* _send raises (the request fails, the answer is no JSON): the exception
\* leaves _handle_update and the for loop.
SendRaise ==
    /\ pc = "send"
    /\ ~cancelling
    /\ pc' = OnException
    /\ caught' = "dispatch"
    /\ queue' = <<>>
    /\ cur' = [cur EXCEPT !.status = "raised"]
    /\ UNCHANGED <<allowed_users, command_map, entry_map, stream, stopping,
                   cancelling, task, session, offset, req, batch, fetched, skipped,
                   dispatched>>

\* asyncio.sleep returns.
SleepDone ==
    /\ pc = "sleep"
    /\ ~cancelling
    /\ LoopHead
    /\ UNCHANGED <<allowed_users, command_map, entry_map, stream, stopping,
                   cancelling, task, offset, queue, batch, fetched, skipped, caught,
                   dispatched, cur>>

\* stop that flips the signal instead of setting it.
stopToggle ==
    /\ stopping' = ~stopping
    /\ UNCHANGED <<allowed_users, command_map, entry_map, stream, pc,
                   cancelling, task, session, offset, queue, req, batch,
                   fetched, skipped, caught, dispatched, cur>>

\* TgBot.stop
stop ==
    /\ stopping' = TRUE
    /\ UNCHANGED <<allowed_users, command_map, entry_map, stream, pc,
                   cancelling, task, session, offset, queue, req, batch,
                   fetched, skipped, caught, dispatched, cur>>

\* TgCoordinator.async_stop: the stop signal, then the task's cancellation
\* (which does nothing to a task that is done).
async_stop ==
    /\ stopping' = TRUE
    /\ cancelling' = (IF task = "set" /\ pc # "done" THEN TRUE ELSE cancelling)
    /\ task' = "none"
    /\ UNCHANGED <<allowed_users, command_map, entry_map, stream, pc, session,
                   offset, queue, req, batch, fetched, skipped, caught, dispatched, cur>>

\* CancelledError caught by "except Exception", as an Exception is: the
\* iteration goes on to its sleep.
CancelledSwallowed ==
    /\ cancelling
    /\ pc \in {"created", "fetch", "exec", "send", "sleep"}
    /\ pc' = OnException
    /\ cancelling' = FALSE
    /\ caught' = "cancel"
    /\ queue' = <<>>
    /\ cur' = (IF cur.status = "running"
               THEN [cur EXCEPT !.status = "raised"] ELSE cur)
    /\ UNCHANGED <<allowed_users, command_map, entry_map, stream, stopping,
                   task, session, offset, req, batch, fetched, skipped, dispatched>>

\* CancelledError is raised in the task where it is suspended: it passes
\* "except asyncio.CancelledError: raise", and the finally clause closes the
\* session. A task cancelled before it first ran never runs.
Cancelled ==
    /\ cancelling
    /\ pc \in {"created", "fetch", "exec", "send", "sleep"}
    /\ pc' = "done"
    /\ cancelling' = FALSE
    /\ session' = (IF pc = "created" THEN session ELSE "closed")
    /\ queue' = <<>>
    /\ cur' = (IF cur.status = "running"
               THEN [cur EXCEPT !.status = "cancelled"] ELSE cur)
    /\ UNCHANGED <<allowed_users, command_map, entry_map, stream, stopping,
                   task, offset, req, batch, fetched, skipped, caught, dispatched>>

\* The options flow stores another command map in the config entry; the
\* running TgBot keeps its snapshot.
OptionsUpdate ==
    /\ \E m \in CmdMaps \ {entry_map} : entry_map' = m
    /\ UNCHANGED <<allowed_users, command_map, stream, pc, stopping,
                   cancelling, task, session, offset, queue, req, batch,
                   fetched, skipped, caught, dispatched, cur>>

Next ==
    \/ Start
    \/ GetUpdatesOk
    \/ GetUpdatesFail
    \/ CallDone
    \/ CallFail
    \/ SendDone
    \/ SendRaise
    \/ SleepDone
    \/ stop
    \/ async_stop
    \/ Cancelled
    \/ OptionsUpdate

\* The state async_start leaves: the bot is built from the entry's
\* configuration and its task is created.
Started0 ==
    /\ entry_map = command_map
    /\ pc = "created"
    /\ stopping = FALSE
    /\ cancelling = FALSE
    /\ task = "set"
    /\ session = "none"
    /\ offset = <<>>
    /\ queue = <<>>
    /\ req = <<>>
    /\ batch = <<>>
    /\ fetched = {}
    /\ skipped = {}
    /\ caught = "none"
    /\ dispatched = <<>>
    /\ cur = NoCall

\* The polling loop over a stream of MaxId updates.
Init ==
    /\ allowed_users = {1}
    /\ command_map = << <<kA, eScript>> >>
    /\ stream \in [1..MaxId -> PollEnvelopes]
    /\ Started0

Spec == Init /\ [][Next]_vars

\* The handling of one message, of any text, sender and configuration.
InitMessage ==
    /\ allowed_users \in AllowLists
    /\ command_map \in CmdMaps
    /\ stream \in [{1} -> Messages]
    /\ Started0

SpecMessage == InitMessage /\ [][Next]_vars

\* A step of the task that runs TgBot.run.
TaskStep ==
    \/ Start
    \/ GetUpdatesOk
    \/ GetUpdatesFail
    \/ CallDone
    \/ CallFail
    \/ SendDone
    \/ SendRaise
    \/ SleepDone
    \/ Cancelled

\* The event loop runs a task that can run: a timer, a request and a service
\* call end, and a cancellation requested is delivered.
Fairness == WF_vars(TaskStep)

FairSpec == Init /\ [][Next]_vars /\ Fairness

----------------------------------------------------------------------------
\* Properties.

\* _handle_update has been called and has returned, raised or been cancelled.
Finished == cur.status \in {"returned", "raised", "cancelled"}

\* The message of the latest call has a text that is present and not empty.
HasText == cur.u.hasText /\ cur.u.text # <<>>

\* The sender of the latest call's message is absent or is not in the
\* allow-list, which is not empty.
Unlisted ==
    /\ allowed_users # {}
    /\ cur.u.user_id = <<>> \/ cur.u.user_id[1] \notin allowed_users

\* C1 as stated: every message from a sender who is absent or is not in a
\* non-empty allow-list is answered with exactly the access-denied text, and
\* neither callback is called for it.
C1_AsStated ==
    (Finished /\ Unlisted)
        => cur.sends = <<Denied>> /\ cur.helps = 0 /\ cur.runs = <<>>

\* C1, amended: every message with a non-empty text from a sender who is
\* absent or is not in a non-empty allow-list is answered with exactly the
\* access-denied text, and neither the run-entity callback (so no service
\* call) nor the help callback is called for it.
C1_DeniedOnly ==
    (cur.status # "none" /\ Unlisted /\ HasText)
        => /\ cur.sends = <<Denied>>
           /\ cur.helps = 0
           /\ cur.runs = <<>>
           /\ cur.execs = <<>>

\* A message with text from an absent sender was handled under a non-empty
\* allow-list, and its reply was sent.
C1_Witness ==
    /\ cur.status = "returned"
    /\ Unlisted
    /\ cur.u.user_id = <<>>
    /\ cur.u.text = kA
    /\ cur.sends = <<Denied>>

\* C2: the update_ids handed to _handle_update are strictly increasing, so
\* no update is dispatched twice, also after iterations in which a dispatch
\* or a reply raised.
C2_StrictlyIncreasing ==
    \A i \in 1..Len(dispatched) : \A j \in 1..Len(dispatched) :
        i < j => dispatched[i] < dispatched[j]

\* An update was dispatched after the dispatch of an earlier one raised.
C2_Witness ==
    /\ Len(dispatched) >= 2
    /\ stream[dispatched[1]].text = <<" ">>
    /\ cur.status = "returned"

\* C3 as stated: after the loop has processed a batch the offset is the
\* batch's largest update_id plus one, and the next request asks for no
\* update of that batch.
C3_AsStated ==
    /\ (pc = "sleep" /\ batch # <<>>) => offset = <<batch[Len(batch)] + 1>>
    /\ (pc = "fetch" /\ batch # <<>>)
            => req # <<>> /\ \A i \in 1..Len(batch) : batch[i] < req[1]

\* C4 as stated: once a fetch has returned the update n, every later request
\* carries an offset greater than n.
C4_AsStated ==
    pc = "fetch" => \A n \in fetched : req # <<>> /\ req[1] > n

\* C5: an exception caught in an iteration does not end the loop: run ends
\* only once stop was signalled (async_stop signals it before it cancels),
\* and after an iteration that caught an exception the next getUpdates
\* request is made, unless stop is signalled first; until stop is signalled
\* a request is made again and again.
C5_LoopSurvives ==
    /\ [](pc = "done" => stopping)
    /\ (caught # "none" /\ pc = "sleep") ~> (pc = "fetch" \/ stopping)
    /\ []<>(pc = "fetch" \/ stopping)

\* A request was made after the iteration before it caught an exception of
\* a dispatch.
C5_Witness ==
    /\ pc = "fetch"
    /\ ~stopping
    /\ caught = "dispatch"
    /\ cur.status = "raised"

\* C6 as stated: no failure of _send leaves _handle_update: a call that has
\* given a reply to _send does not raise.
C6_AsStated == cur.sends # <<>> => cur.status # "raised"

\* C7: once stop is signalled (and the task is not cancelled), run goes on
\* to the end of the iteration in flight, leaving the loop only at its head
\* after the sleep (or when it first starts); no request is made any more;
\* and run ends.
C7_StopDrains ==
    /\ [][(stopping /\ ~cancelling /\ pc # "done" /\ pc' = "done")
            => pc \in {"sleep", "created"}]_vars
    /\ [][(stopping /\ pc # "fetch") => pc' # "fetch"]_vars
    /\ stopping ~> (pc = "done")

\* stop was called (not async_stop) on a bot that had made a request; run
\* finished the dispatch of the batch, reply included, and ended.
C7_Witness ==
    /\ stopping
    /\ task = "set"
    /\ pc = "done"
    /\ session = "closed"
    /\ cur.status = "returned"
    /\ cur.sends # <<>>

\* The sender of the latest call's message passes the allow-list.
Authorized ==
    \/ allowed_users = {}
    \/ cur.u.user_id # <<>> /\ cur.u.user_id[1] \in allowed_users

\* The stripped text of the latest call's message is no /help, starts with
\* no command-map key and is no /run.
NoMatch ==
    /\ ~StartsWith(Strip(cur.u.text), sHelp)
    /\ ~StartsWith(Strip(cur.u.text), sRun)
    /\ \A i \in 1..Len(Split(cur.u.text)) :
            i = 1 => ~HasKey(command_map, Split(cur.u.text)[i])

\* C8 as stated: a message with non-empty text (blank text included) from an
\* authorized sender ends in one of HELP, FIXED_RUN, GENERIC_RUN, USAGE_ERROR
\* and UNKNOWN with exactly one reply given to _send; a message without text
\* gets no reply; a text that matches nothing gets the unknown-command reply.
C8_AsStated ==
    /\ (cur.status \in {"returned", "raised"} /\ HasText /\ Authorized)
            => /\ cur.branch \in {"HELP", "FIXED_RUN", "GENERIC_RUN",
                                  "USAGE_ERROR", "UNKNOWN"}
               /\ Len(cur.sends) = 1
    /\ (cur.status # "none" /\ ~HasText) => cur.sends = <<>>
    /\ (cur.status \in {"returned", "raised"} /\ HasText /\ Authorized /\ NoMatch)
            => cur.sends = <<Unknown>>

\* C9: a target with a "." given to the run-entity callback (by /run or by a
\* fixed command) makes exactly one service call, for the stripped target
\* as entity_id: trigger when what precedes the first "." is "automation",
\* turn_on otherwise.
C9_OneCall ==
    (cur.status # "none" /\ cur.runs # <<>> /\ HasDot(cur.runs[1]))
        => /\ Len(cur.execs) = 1
           /\ cur.execs[1].entity_id = Strip(cur.runs[1])
           /\ cur.execs[1].service =
                (IF StartsWith(Strip(cur.runs[1]), sAutomation \o <<".">>)
                 THEN "trigger" ELSE "turn_on")

\* A fixed command mapped to an automation was handled: the call was a
\* trigger, and the reply was sent.
C9_Witness ==
    /\ cur.status = "returned"
    /\ cur.branch = "FIXED_RUN"
    /\ cur.runs = <<eAuto>>
    /\ cur.execs = <<[domain |-> sAutomation, service |-> "trigger",
                      entity_id |-> eAuto]>>

\* C10: a target without "." given to the run-entity callback (by /run or by
\* a fixed command) is answered with the malformed-target text, and no
\* service call is made.
C10_NoDot ==
    (cur.status # "none" /\ cur.runs # <<>> /\ ~HasDot(cur.runs[1]))
        => cur.sends = <<BadEntity>> /\ cur.execs = <<>>

\* A fixed command mapped to a target without "." was handled and answered.
C10_Witness ==
    /\ cur.status = "returned"
    /\ cur.branch = "FIXED_RUN"
    /\ cur.runs = <<eFoo>>
    /\ cur.sends = <<BadEntity>>

\* C11: when the service call raises for a target with a ".", the exception
\* is caught in _handle_run_entity: the reply handed to _send is the one
\* error text, made of the entity_id of the call and of the exception's
\* text; _handle_update goes on to _send without raising (the except clause
\* of run sees nothing); and the service is not called again for that
\* message.
C11_ErrorReply ==
    /\ [](cur.error # "none"
            => /\ Len(cur.execs) = 1
               /\ HasDot(cur.execs[1].entity_id)
               /\ cur.sends = <<Failed(cur.execs[1].entity_id, cur.error)>>)
    /\ [][(pc = "exec" /\ ~cancelling /\ pc' # "exec")
            => /\ pc' = "send"
               /\ cur'.status = "running"
               /\ Len(cur'.sends) = 1
               /\ caught' = caught]_vars
    /\ [][cur.error # "none" => (pc' = "exec" => cur'.id # cur.id)]_vars

\* The service call for a /run target raised, and the error text with the
\* target and the exception's text was sent.
C11_Witness ==
    /\ cur.status = "returned"
    /\ cur.branch = "GENERIC_RUN"
    /\ cur.error = "timeout"
    /\ cur.sends = <<Failed(eScript, "timeout")>>

\* The stripped text of the latest call's message.
Text == Strip(cur.u.text)

\* C12: a message from an authorized sender whose stripped text starts with
\* "/run", is a single token, and whose token is no key of the command map,
\* is answered with the usage text; on_run_entity is not called and no
\* service call is made.
C12_UsageHint ==
    (/\ cur.status # "none"
     /\ HasText
     /\ Authorized
     /\ StartsWith(Text, sRun)
     /\ Len(Split(Text)) = 1
     /\ ~HasKey(command_map, Split(Text)[1]))
        => /\ cur.branch = "USAGE_ERROR"
           /\ cur.sends = <<Usage>>
           /\ cur.runs = <<>>
           /\ cur.execs = <<>>

\* "/runsc.a" (one token that starts with "/run") was handled and answered
\* with the usage text.
C12_Witness ==
    /\ cur.status = "returned"
    /\ cur.u.text = sRun \o eScript
    /\ Authorized
    /\ cur.sends = <<Usage>>

\* C13: stop and async_stop can be called in every state and raise nothing;
\* the stop signal, once set, stays set; a stop of a stopped bot and an
\* async_stop of a coordinator already stopped change nothing at all,
\* whether run has not started, is suspended or has ended; and the
\* cancellation of a task that is done has no effect.
C13_StopIdempotent ==
    /\ [][stopping => stopping']_vars
    /\ [][~(stopping /\ stop)]_vars
    /\ [][~(stopping /\ task = "none" /\ async_stop)]_vars
    /\ [][(pc = "done" /\ ~cancelling) => ~cancelling']_vars
    /\ [](ENABLED stop /\ ENABLED async_stop)

\* The coordinator was stopped and run has ended with nothing left to
\* cancel: a further stop or async_stop finds the loop exited.
C13_Witness ==
    /\ stopping
    /\ task = "none"
    /\ pc = "done"
    /\ session = "closed"
    /\ ~cancelling
    /\ cur.status = "returned"
    /\ cur.sends # <<>>

\* C14: under an empty allow-list a message with a non-empty text, from any
\* sender or from none, passes _is_allowed: it is not answered with the
\* access-denied text and goes on to the classification.
C14_OpenToAll ==
    (cur.status # "none" /\ allowed_users = {} /\ HasText)
        => /\ cur.branch \notin {"DENIED", "NO_TEXT", "NONE"}
           /\ \A i \in 1..Len(cur.sends) : cur.sends[i] # Denied

\* Under an empty allow-list a fixed command of a message without sender
\* was run and answered.
C14_Witness ==
    /\ allowed_users = {}
    /\ cur.u.user_id = <<>>
    /\ cur.u.text = kA
    /\ cur.status = "returned"
    /\ cur.branch = "FIXED_RUN"
    /\ cur.sends = <<Started(eScript)>>

\* The first token of the stripped text is a key of the command map.
KeyFirst == Split(Text) # <<>> /\ HasKey(command_map, Split(Text)[1])

\* C15: for a message with text from an authorized sender the tests are
\* tried in the order /help, command map, /run, unknown. A stripped text
\* that starts with "/help" is answered with the help text and runs nothing,
\* also when its first token is a key of the command map. Otherwise a first
\* token that is a key runs the target mapped to it and nothing else, also
\* when the text has more tokens or starts with "/run". Only otherwise a
\* text that starts with "/run" is handled as "/run <entity_id>" (the target
\* run is what follows the first token), and the unknown-command reply is
\* given only to a text that passed none of the three tests.
C15_Priority ==
    (cur.status # "none" /\ HasText /\ Authorized)
        => /\ StartsWith(Text, sHelp)
                => /\ cur.branch = "HELP"
                   /\ Len(cur.sends) = 1 /\ cur.sends[1].kind = "help"
                   /\ cur.helps = 1 /\ cur.runs = <<>> /\ cur.execs = <<>>
           /\ (~StartsWith(Text, sHelp) /\ KeyFirst)
                => /\ cur.branch = "FIXED_RUN"
                   /\ cur.runs = <<Lookup(command_map, Split(Text)[1])>>
                   /\ cur.helps = 0
           /\ (~StartsWith(Text, sHelp) /\ ~KeyFirst /\ StartsWith(Text, sRun))
                => /\ cur.branch \in {"GENERIC_RUN", "USAGE_ERROR"}
                   /\ cur.branch = "GENERIC_RUN"
                        => cur.runs = <<Strip(SplitMax1(Text)[2])>>
                   /\ cur.helps = 0
           /\ cur.branch = "UNKNOWN"
                => /\ ~StartsWith(Text, sHelp)
                   /\ ~KeyFirst
                   /\ ~StartsWith(Text, sRun)
                   /\ cur.sends = <<Unknown>>

\* "/run sc.a" was handled under a command map with the key "/run": the
\* target mapped to "/run" was run, not sc.a.
C15_Witness ==
    /\ cur.status = "returned"
    /\ Authorized
    /\ cur.u.text = sRun \o <<" ">> \o eScript
    /\ HasKey(command_map, sRun)
    /\ cur.branch = "FIXED_RUN"
    /\ cur.runs = <<eFoo>>
    /\ cur.sends = <<BadEntity>>

\* run is suspended in an await of its loop.
Suspended == pc \in {"fetch", "exec", "send", "sleep"}

\* C16: once async_stop has cancelled the task while run is suspended in
\* getUpdates, in a dispatch (the service call or the reply's _send) or in
\* the sleep, run leaves that await for its end and does nothing more of
\* the iteration: no update is dispatched, no service call and no reply is
\* started, the offset stays, "except Exception" does not catch the
\* cancellation, the session is closed when run ends, and run does end.
C16_CancelExits ==
    /\ [][(cancelling /\ Suspended)
            => /\ pc' \in {pc, "done"}
               /\ dispatched' = dispatched
               /\ offset' = offset
               /\ cur'.id = cur.id
               /\ cur'.execs = cur.execs
               /\ cur'.sends = cur.sends
               /\ cur'.status \in {cur.status, "cancelled"}
               /\ caught' = caught
               /\ pc' = "done" => session' = "closed" /\ ~cancelling']_vars
    /\ [][pc = "done" => UNCHANGED <<pc, session, dispatched, offset, cur>>]_vars
    /\ (cancelling /\ Suspended) ~> (pc = "done" /\ session = "closed")

\* The task was cancelled in the service call of the first of two updates
\* fetched: run ended, the second was not dispatched, and no reply was sent.
C16_Witness ==
    /\ pc = "done"
    /\ task = "none"
    /\ session = "closed"
    /\ batch = <<1, 2>>
    /\ dispatched = <<1>>
    /\ cur.status = "cancelled"
    /\ cur.execs # <<>>
    /\ cur.sends = <<>>

\* C17: when _get_updates raises (an answer that is not ok, or an item that
\* cannot be parsed), no update of that answer is dispatched, the offset is
\* left as it was, the iteration goes to its sleep, and the request after
\* the sleep carries the same offset as the one that failed.
C17_FetchFailure ==
    /\ [][(pc = "fetch" /\ pc' # "fetch" /\ caught' = "fetch")
            => /\ pc' \in {"sleep", "done"}
               /\ offset' = offset
               /\ offset' = req
               /\ dispatched' = dispatched
               /\ cur' = cur
               /\ queue' = <<>>]_vars
    /\ [][(pc = "sleep" /\ caught = "fetch" /\ pc' = "fetch")
            => req' = req /\ offset' = offset /\ dispatched' = dispatched]_vars

\* After an update was dispatched a request failed, and the next request
\* was made with the same offset.
C17_Witness ==
    /\ pc = "fetch"
    /\ caught = "fetch"
    /\ ~stopping
    /\ dispatched # <<>>
    /\ req = offset
    /\ req # <<>>

\* The update_ids dispatched so far.
Dispatched == {dispatched[i] : i \in 1..Len(dispatched)}

\* C18: an item of getUpdates' result without "message" and "edited_message"
\* is passed over: it is never dispatched and is no part of what
\* _get_updates returns; an answer with such items only returns nothing
\* and leaves the offset as it was; and the offset is past such an item
\* only once an update with a message and a larger update_id was
\* dispatched.
C18_NoMessageDropped ==
    /\ [](\A i \in Dispatched \cup fetched : stream[i].msg)
    /\ [](\A j \in skipped : ~stream[j].msg /\ \A i \in 1..Len(batch) : batch[i] # j)
    /\ [][(pc = "fetch" /\ pc' # "fetch" /\ skipped' # {} /\ batch' = <<>>)
            => offset' = offset /\ dispatched' = dispatched]_vars
    /\ [](\A j \in DOMAIN stream :
            (~stream[j].msg /\ offset # <<>> /\ offset[1] > j)
                => \E i \in Dispatched : i > j /\ offset[1] > i)

\* After update 1 was dispatched an answer held only update 2, which has no
\* message: nothing was dispatched, and the next request asks for 2 again.
C18_Witness ==
    /\ pc = "fetch"
    /\ ~stream[2].msg
    /\ skipped = {2}
    /\ batch = <<>>
    /\ caught = "none"
    /\ dispatched = <<1>>
    /\ req = <<2>>

\* The iteration has ended in "except Exception" for an exception of the
\* dispatch of update cur.id, and run is in the sleep that follows.
DispatchRaised == pc = "sleep" /\ caught = "dispatch"

\* The updates of the latest batch that come after the latest dispatched.
Later == {batch[i] : i \in {n \in 1..Len(batch) : batch[n] > cur.id}}

\* getUpdates answers with every update at or after the offset asked for.
FullAnswer ==
    /\ pc = "fetch"
    /\ pc' # "fetch"
    /\ caught' # "fetch"
    /\ batch' = Ascending(Parsed(Pending))

\* C19: when the dispatch of update k raises (in _handle_update or in the
\* _send of its reply), the iteration ends there: the updates of the batch
\* after k are not dispatched in it and nothing is until the next
\* getUpdates, the offset is k + 1, and no update is ever dispatched twice
\* (so k is not dispatched again); and when stop is never called and
\* getUpdates keeps answering with every update at or after the offset,
\* each update of the batch after k is dispatched in the end.
C19_RaiseSkipsRest ==
    /\ [](DispatchRaised
            => /\ cur.status = "raised"
               /\ cur.id = dispatched[Len(dispatched)]
               /\ offset = <<cur.id + 1>>
               /\ queue = <<>>
               /\ Later \cap Dispatched = {})
    /\ [][pc = "sleep" => dispatched' = dispatched /\ offset' = offset]_vars
    /\ [][DispatchRaised /\ pc' = "fetch" => req' = <<cur.id + 1>>]_vars
    /\ [](\A i \in 1..Len(dispatched) : \A j \in 1..Len(dispatched) :
            i # j => dispatched[i] # dispatched[j])
    /\ ([]~stopping /\ []<><<FullAnswer>>_vars)
            => \A j \in 1..MaxId :
                    (DispatchRaised /\ j \in Later) ~> (j \in Dispatched)

\* The dispatch of update 1 raised with update 2 of the same batch still
\* to come: 2 was not dispatched, and the offset is 2.
C19_Witness ==
    /\ DispatchRaised
    /\ ~stopping
    /\ batch = <<1, 2>>
    /\ dispatched = <<1>>
    /\ cur.status = "raised"
    /\ offset = <<2>>

\* C20 as stated: the help text agrees with the dispatcher whenever it is
\* sent, also after the command map stored in the config entry was edited
\* while the bot runs: every line "<command> -> <target>" of a help reply
\* names a command that _handle_update runs as a fixed command with that
\* target, and every key of the bot's command map has a line in the reply.
C20_AsStated ==
    (cur.branch = "HELP" /\ cur.sends # <<>>)
        => /\ \A n \in 1..Len(cur.sends[1].lines) :
                cur.sends[1].lines[n].line = "map"
                    => /\ Classify(cur.sends[1].lines[n].command).branch = "FIXED_RUN"
                       /\ Classify(cur.sends[1].lines[n].command).runs
                            = <<cur.sends[1].lines[n].target>>
           /\ \A i \in 1..Len(command_map) :
                \E n \in 1..Len(cur.sends[1].lines) :
                    /\ cur.sends[1].lines[n].line = "map"
                    /\ cur.sends[1].lines[n].command = command_map[i][1]

====
